---- MODULE Spec2Model ----
(***************************************************************************)
(* Model of the query notebooks of SDC-metrics-2019:                       *)
(*   src/T231952-part-1.ipynb      (claim actions, caption counts; Hive)   *)
(*   src/sdc_usage_through_lua.ipynb (template usage counts; MariaDB)      *)
(*                                                                         *)
(* A query template is a Python string with {name} fields; it is bound by  *)
(* str.format with keyword arguments, handed to hive.run or mariadb.run    *)
(* of the wmfdata library; the scalar counts that come back are combined   *)
(* by plain arithmetic.  Text is a sequence of tokens: "{" and "}" are     *)
(* tokens of their own, every other token is a stretch of literal text or  *)
(* a field name.                                                           *)
(***************************************************************************)
EXTENDS Integers, Sequences, FiniteSets, TLC

VARIABLES
    catalog,    \* the query templates defined so far: a set of [name, text]
    op,         \* the operation that produced the current state
    regArg,     \* register: the template offered
    regOut,     \* register: "ok" or the error raised
    bindArg,    \* bind: [name, text, params]
    bound,      \* bind: outcome of str.format
    runArg,     \* run: [backend, pre, query, beh]
    sent,       \* run: the statements handed to a backend, in order
    calls,      \* run: number of invocations of the backend's run function
    result,     \* run: the outcome the cell is left with
    shown,      \* display: what a later cell prints of the result
    args,       \* overlap: [a, b, u], the three counts
    sets,       \* overlap: [A, B], the page_id rows the counts were measured on
    overlap,    \* overlap: outcome of the subtraction
    frames,     \* overlap: [A, B, U], the three result frames of the count queries
    series,     \* overlap: the Series the subtraction of the three columns gives
    data,       \* query: [events, s, e], the history rows and the date range
    selected,   \* query: for each query, the events its WHERE clause selects
    quarterly,  \* query: [firsts, through], the first-caption frame and its counts
    db,         \* query: [tl, eu], rows of templatelinks and of wbc_entity_usage
    titles,     \* query: the row title_template_query returns
    before,     \* rerun: [query, result] of the run before this one
    inflight    \* stepwise run: the statements handed to a backend and not yet answered

others == <<args, sets, overlap, frames, series, data, selected, quarterly, db, titles,
            before, inflight>>

vars == <<catalog, op, regArg, regOut, bindArg, bound, runArg, sent, calls,
          result, shown, others>>

----------------------------------------------------------------------------
(* Bounds of the model *)

MaxCount == 3      \* small counts fed to the overlap arithmetic: 0..MaxCount
MaxPages == 3      \* pages of the bounded universe: 1..MaxPages
MaxRows  == 2      \* rows a count query selects: at most MaxRows
MaxTime  == 2      \* event timestamps and date bounds: 0..MaxTime

----------------------------------------------------------------------------
(* Configuration variables and recorded counts of the notebooks *)

wmf_snapshot == <<"2019-11">>
start_date   == <<"2019-01-01">>
end_date     == <<"2019-12-01">>

nonenglish_caption_filecount == 731900
english_caption_filecount    == 776401
all_caption_filecount        == 1365092

SET_MEMORY == <<"SET mapreduce.map.memory.mb=4096">>

----------------------------------------------------------------------------
(* The query templates, as token sequences *)

\* The WHERE clause common to the mediawiki_history templates, from the
\* snapshot to the end of the date range.
HistoryRange(endOp) ==
    << " FROM wmf.mediawiki_history", " WHERE snapshot = ", "{", "snapshot", "}",
       " AND wiki_db = commonswiki AND event_entity = revision AND event_type = create",
       " AND event_timestamp >= ", "{", "start_date", "}",
       endOp, "{", "end_date", "}",
       " AND page_is_deleted = false AND page_namespace = 6" >>

claim_query ==
    << "SELECT claim_action, claim_subaction, count(1) AS num_actions FROM (SELECT regexp_extract(...)" >>
      \o HistoryRange(" AND event_timestamp < ")
      \o << " AND event_comment REGEXP ^...(wb[^-]+)-([^:]+):) AS ce GROUP BY claim_action, claim_subaction" >>

caption_query ==
    << "SELECT SUM(IF(add)) AS num_adds, SUM(IF(set)) AS num_mods, SUM(IF(remove)) AS num_dels",
       " FROM wmf.mediawiki_history", " WHERE snapshot = ", "2019-10",
       " AND wiki_db = commonswiki AND event_entity = revision AND event_type = create",
       " AND event_timestamp >= ", "2019-01-01",
       " AND event_comment REGEXP ^...wbsetlabel-(add|set|remove):" >>

nonenglish_caption_count_query ==
    << "SELECT COUNT(DISTINCT page_id) AS num_pages" >>
      \o HistoryRange(" AND event_timestamp < ")
      \o << " AND event_comment REGEXP ^...wbsetlabel-add:",
            " AND regexp_extract(lang) NOT REGEXP ^simple|en|(en-.+)$" >>

template_count_query ==
    << "SELECT count(DISTINCT tl_from) AS num_files", " FROM templatelinks",
       " WHERE tl_namespace = 10 AND tl_title = ",
       "{", "template_title", "}",
       " AND tl_from_namespace = 6" >>

english_caption_count_query ==
    << "SELECT COUNT(DISTINCT page_id) AS num_pages" >>
      \o HistoryRange(" AND event_timestamp < ")
      \o << " AND event_comment REGEXP ^...wbsetlabel-add",
            " AND regexp_extract(lang) REGEXP ^simple|en|(en-.+)$" >>

\* The templates the notebooks define, each under its Python name, with the
\* backend its cell hands it to and whether the cell sends a SET statement
\* first and formats the text.
SourceTemplates ==
    { [name |-> "claim_query", text |-> claim_query],
      [name |-> "caption_query", text |-> caption_query],
      [name |-> "nonenglish_caption_count_query", text |-> nonenglish_caption_count_query],
      [name |-> "template_count_query", text |-> template_count_query] }

TemplateNames == { t.name : t \in SourceTemplates }

\* What a cell may (re)define a name as: the text the notebook gives it, or the
\* text of the English count query pasted under the name of a Hive template
\* or of the MariaDB template.
Candidates ==
    SourceTemplates
      \cup { [name |-> n, text |-> english_caption_count_query]
             : n \in {"claim_query", "template_count_query"} }

----------------------------------------------------------------------------
(* Parameter mappings handed to str.format *)

ParamNames == {"snapshot", "start_date", "end_date", "template_title", "limit"}

\* The titles the MariaDB cells pass.
TemplateTitles == {<<"Information">>, <<"Artwork">>}

\* A value whose text has the form of a field.
BracedValue == <<"{", "limit", "}">>

ValuesOf(n) ==
    CASE n = "snapshot"       -> {wmf_snapshot}
      [] n = "start_date"     -> {start_date}
      [] n = "end_date"       -> {end_date}
      [] n = "template_title" -> TemplateTitles \cup {BracedValue}
      [] OTHER                -> {<<"250">>}

AllValues == UNION { ValuesOf(n) : n \in ParamNames }

Mappings ==
    UNION { { f \in [S -> AllValues] : \A n \in S : f[n] \in ValuesOf(n) }
            : S \in SUBSET ParamNames }

\* The keyword arguments of the Hive cells and of the MariaDB cells.
HiveParams ==
    [n \in {"snapshot", "start_date", "end_date"} |->
        CASE n = "snapshot" -> wmf_snapshot
          [] n = "start_date" -> start_date
          [] OTHER -> end_date]

MariadbParams(title) == [n \in {"template_title"} |-> title]

----------------------------------------------------------------------------
(* str.format: one scan of the text from left to right *)

\* str.format returns the text or raises; it reports nothing else.
FormatOk(text)   == [status |-> "ok", text |-> text, key |-> "", warnings |-> {}]

\* An error that does not say which field had no value.
FormatError_NoKey(e, k) == [status |-> e, text |-> <<>>, key |-> "", warnings |-> {}]

FormatError(e, k) == [status |-> e, text |-> <<>>, key |-> k, warnings |-> {}]

RECURSIVE format_from(_, _, _, _)
format_from(text, kw, i, acc) ==
    IF i > Len(text) THEN FormatOk(acc)
    ELSE IF text[i] = "{" THEN
        IF i + 1 <= Len(text) /\ text[i + 1] = "{"
        THEN format_from(text, kw, i + 2, Append(acc, "{"))
        ELSE IF i + 2 <= Len(text) /\ text[i + 1] # "}" /\ text[i + 2] = "}"
        THEN IF text[i + 1] \in DOMAIN kw
             THEN format_from(text, kw, i + 3, acc \o kw[text[i + 1]])
             ELSE FormatError("KeyError", text[i + 1])
        ELSE IF i + 1 <= Len(text) /\ text[i + 1] = "}"
        THEN FormatError("IndexError", "")
        ELSE FormatError("ValueError", "")
    ELSE IF text[i] = "}" THEN
        IF i + 1 <= Len(text) /\ text[i + 1] = "}"
        THEN format_from(text, kw, i + 2, Append(acc, "}"))
        ELSE FormatError("ValueError", "")
    ELSE format_from(text, kw, i + 1, Append(acc, text[i]))

\* A format that leaves a field without a value empty instead of raising.
RECURSIVE format_lenient_from(_, _, _, _)
format_lenient_from(text, kw, i, acc) ==
    IF i > Len(text) THEN FormatOk(acc)
    ELSE IF text[i] = "{" /\ i + 2 <= Len(text) /\ text[i + 2] = "}"
    THEN format_lenient_from(text, kw, i + 3,
            IF text[i + 1] \in DOMAIN kw THEN acc \o kw[text[i + 1]] ELSE acc)
    ELSE format_lenient_from(text, kw, i + 1, Append(acc, text[i]))

format_lenient(text, kw) == format_lenient_from(text, kw, 1, <<>>)

\* A format that refuses keyword arguments the text has no field for.
format_strict(text, kw) ==
    IF \E n \in DOMAIN kw :
          ~\E i \in 1..(Len(text) - 2) :
              text[i] = "{" /\ text[i + 1] = n /\ text[i + 2] = "}"
    THEN FormatError("TypeError", "")
    ELSE format_from(text, kw, 1, <<>>)

\* A format that scans its own output once more.
format_twice(text, kw) ==
    LET f == format_from(text, kw, 1, <<>>)
    IN  IF f.status = "ok" THEN format_from(f.text, kw, 1, <<>>) ELSE f

format(text, kw) == format_from(text, kw, 1, <<>>)
----------------------------------------------------------------------------
(* The backends: hive.run and mariadb.run of the wmfdata library *)

NativeMessages == {"FAILED: ParseException line 1:0", "Can't connect to server"}

\* Results recorded in the notebooks, rows in the order the backend gave them.
label_counts ==
    [columns |-> <<"num_adds", "num_mods", "num_dels">>,
     rows |-> << <<1500795, 28802, 9967>> >>]

claim_counts ==
    [columns |-> <<"claim_action", "claim_subaction", "num_actions">>,
     rows |-> << <<"wbeditentity", "update-languages", 872>>,
                 <<"wbsetlabel", "set", 33839>>,
                 <<"wbcreateclaim", "create", 1655105>> >>]

template_count_Information ==
    [columns |-> <<"count(DISTINCT tl_from)">>, rows |-> << <<51836906>> >>]

EmptyTable == [columns |-> <<"num_pages">>, rows |-> <<>>]

Tables == {EmptyTable, label_counts, claim_counts, template_count_Information}

\* What a backend does with one invocation: failAt = 0, every statement
\* succeeds; failAt = k, statement k fails with a native error of that kind.
Behaviours ==
    [failAt : {0}, kind : {"none"}, msg : {""}, table : Tables]
      \cup [failAt : {1, 2}, kind : {"unreachable", "rejected"},
            msg : NativeMessages, table : {EmptyTable}]

Fails(stmts, beh) == beh.failAt \in 1..Len(stmts)

\* The statements are executed one after the other; the first failure ends
\* the invocation; the result is that of the last statement.
Invoke(backend, stmts, beh) ==
    LET n == IF Fails(stmts, beh) THEN beh.failAt ELSE Len(stmts)
    IN  [ log     |-> [i \in 1..n |-> [backend |-> backend, stmt |-> stmts[i]]],
          outcome |-> IF Fails(stmts, beh)
                      THEN [status |-> "error", kind |-> beh.kind, msg |-> beh.msg,
                            answers |-> <<>>, columns |-> <<>>, rows |-> <<>>]
                      ELSE [status |-> "ok", kind |-> "none", msg |-> "",
                            answers |-> stmts[Len(stmts)],
                            columns |-> beh.table.columns, rows |-> beh.table.rows] ]

----------------------------------------------------------------------------
(* A query cell: one call of the backend's run function, nothing around it *)

NoResult ==
    [status |-> "none", kind |-> "none", msg |-> "", answers |-> <<>>,
     columns |-> <<>>, rows |-> <<>>]

\* The cell with the main query put before the SET statement.
RunCell_QueryFirst(backend, pre, query, beh) ==
    LET r == Invoke(backend, <<query>> \o pre, beh)
    IN  [sent |-> r.log, calls |-> 1, result |-> r.outcome]

\* The cell with a second attempt after a failure.
RunCell_Retry(backend, pre, query, beh) ==
    LET r == Invoke(backend, pre \o <<query>>, beh)
    IN  IF r.outcome.status = "error"
        THEN [sent |-> r.log \o r.log, calls |-> 2, result |-> r.outcome]
        ELSE [sent |-> r.log, calls |-> 1, result |-> r.outcome]

\* The cell with a handler that replaces the error by one of its own.
RunCell_Swallow(backend, pre, query, beh) ==
    LET r == Invoke(backend, pre \o <<query>>, beh)
    IN  [sent |-> r.log, calls |-> 1,
         result |-> IF r.outcome.status = "error"
                    THEN [r.outcome EXCEPT !.kind = "rejected", !.msg = "query failed"]
                    ELSE r.outcome]

\* The cell calling the run function of the other backend.
RunCell_OtherBackend(backend, pre, query, beh) ==
    LET r == Invoke(IF backend = "hive" THEN "mariadb" ELSE "hive", pre \o <<query>>, beh)
    IN  [sent |-> r.log, calls |-> 1, result |-> r.outcome]

\* The cell with a result kept from the last run of the same query.
RunCell_Cached(backend, pre, query, beh) ==
    LET r == Invoke(backend, pre \o <<query>>, beh)
    IN  IF runArg.query = query /\ result.status = "ok"
        THEN [sent |-> <<>>, calls |-> 0, result |-> result]
        ELSE [sent |-> r.log, calls |-> 1, result |-> r.outcome]

\* The cell with every statement handed over whatever fails.
RunCell_KeepGoing(backend, pre, query, beh) ==
    LET stmts == pre \o <<query>>
        r == Invoke(backend, stmts, beh)
    IN  [sent |-> [i \in 1..Len(stmts) |-> [backend |-> backend, stmt |-> stmts[i]]],
         calls |-> 1, result |-> r.outcome]

RunCell(backend, pre, query, beh) ==
    LET r == Invoke(backend, pre \o <<query>>, beh)
    IN  [sent |-> r.log, calls |-> 1, result |-> r.outcome]

\* A format error ends the cell before the backend is called.
FormatFailed(f) ==
    [sent |-> <<>>, calls |-> 0,
     result |-> [status |-> "error", kind |-> f.status, msg |-> f.key,
                 answers |-> <<>>, columns |-> <<>>, rows |-> <<>>]]

----------------------------------------------------------------------------
(* claim_counts.sort_values(['claim_action', 'claim_subaction']) *)

\* The strings of the two sort columns, in alphabetical order.
Alphabetical ==
    <<"create", "set", "update-languages", "wbcreateclaim", "wbeditentity", "wbsetlabel">>

Rank(x) == CHOOSE i \in 1..Len(Alphabetical) : Alphabetical[i] = x

RowBefore(r1, r2) ==
    \/ Rank(r1[1]) < Rank(r2[1])
    \/ Rank(r1[1]) = Rank(r2[1]) /\ Rank(r1[2]) < Rank(r2[2])

RECURSIVE InsertRow(_, _)
InsertRow(r, sorted) ==
    IF sorted = <<>> THEN <<r>>
    ELSE IF RowBefore(r, sorted[1]) THEN <<r>> \o sorted
    ELSE <<sorted[1]>> \o InsertRow(r, Tail(sorted))

RECURSIVE SortRows(_)
SortRows(rows) ==
    IF rows = <<>> THEN <<>>
    ELSE InsertRow(rows[Len(rows)], SortRows(SubSeq(rows, 1, Len(rows) - 1)))

HasColumn(frame, name) == \E i \in 1..Len(frame.columns) : frame.columns[i] = name

SortError(frame) ==
    [frame EXCEPT !.status = "error", !.kind = "KeyError", !.msg = "claim_action",
                  !.columns = <<>>, !.rows = <<>>]

\* sort_values(..., inplace = True): the frame itself is reordered.
sort_values_inplace(frame) ==
    IF HasColumn(frame, "claim_action") /\ HasColumn(frame, "claim_subaction")
    THEN [frame |-> [frame EXCEPT !.rows = SortRows(frame.rows)],
          shown |-> [frame EXCEPT !.rows = SortRows(frame.rows)]]
    ELSE [frame |-> frame, shown |-> SortError(frame)]

\* sort_values returns a sorted copy; the frame keeps the backend's order.
sort_values(frame) ==
    IF HasColumn(frame, "claim_action") /\ HasColumn(frame, "claim_subaction")
    THEN [frame |-> frame, shown |-> [frame EXCEPT !.rows = SortRows(frame.rows)]]
    ELSE [frame |-> frame, shown |-> SortError(frame)]

----------------------------------------------------------------------------
(* The catalog of templates *)

Defined(cat, name) == \E c \in cat : c.name = name

Lookup(cat, name) == CHOOSE c \in cat : c.name = name

\* A register that adds the template whatever the catalog holds.
register_unchecked(cat, t) == [catalog |-> cat \cup {t}, out |-> "ok"]

register(cat, t) ==
    IF Defined(cat, t.name)
    THEN [catalog |-> cat, out |-> "DuplicateTemplateError"]
    ELSE [catalog |-> cat \cup {t}, out |-> "ok"]

----------------------------------------------------------------------------
(* Number of pages with both: inclusion-exclusion on three counts *)

Pages == 1..MaxPages

Counts == (0..MaxCount)
            \cup {nonenglish_caption_filecount, english_caption_filecount,
                  all_caption_filecount}

RowSeqs == UNION { [1..n -> Pages] : n \in 0..MaxRows }

PageSet(rows) == { rows[i] : i \in DOMAIN rows }

\* COUNT(page_id), without DISTINCT.
count_rows(rows) == Len(rows)

\* COUNT(DISTINCT page_id)
count_distinct(rows) == Cardinality(PageSet(rows))

pairwise_overlap_sum(a, b, u) == [status |-> "value", value |-> a + b + u]

pairwise_overlap_dropb(a, b, u) == [status |-> "value", value |-> a - u]

pairwise_overlap(a, b, u) == [status |-> "value", value |-> a + b - u]

\* The same cell on the frames the count queries returned: frame['num_pages']
\* is a Series, and + and - align two Series on their index and give NaN
\* where either has no row.
NaN == [nan |-> TRUE, v |-> 0]

Column(frame, name) ==
    LET c == CHOOSE i \in 1..Len(frame.columns) : frame.columns[i] = name
    IN  [i \in 1..Len(frame.rows) |-> [nan |-> FALSE, v |-> frame.rows[i][c]]]

Longer(x, y) == IF Len(x) >= Len(y) THEN Len(x) ELSE Len(y)

Both(x, y, i) == i <= Len(x) /\ i <= Len(y) /\ ~x[i].nan /\ ~y[i].nan

series_add(x, y) ==
    [i \in 1..Longer(x, y) |->
        IF Both(x, y, i) THEN [nan |-> FALSE, v |-> x[i].v + y[i].v] ELSE NaN]

series_sub(x, y) ==
    [i \in 1..Longer(x, y) |->
        IF Both(x, y, i) THEN [nan |-> FALSE, v |-> x[i].v - y[i].v] ELSE NaN]

overlap_series(fa, fb, fu) ==
    [status |-> "value",
     cells  |-> series_sub(series_add(Column(fa, "num_pages"), Column(fb, "num_pages")),
                           Column(fu, "num_pages"))]

\* The frames a COUNT query can come back as: no row, or one row.
CountFrames ==
    {EmptyTable} \cup { [columns |-> <<"num_pages">>, rows |-> << <<n>> >>] : n \in Counts }

----------------------------------------------------------------------------
(* The WHERE clauses of the caption queries, on rows of mediawiki_history *)

Times == 0..MaxTime

en     == <<"e", "n">>
de     == <<"d", "e">>
simple == <<"s", "i", "m", "p", "l", "e">>
en_gb  == <<"e", "n", "-", "g", "b">>
ven    == <<"v", "e", "n">>

\* An edit comment  /* <action><sep><digits>|<lang> */ ...
\* sep is what follows the action; digits is the number of digits before "|".
CommentForms ==
    [action : {"wbsetlabel-add"}, sep : {":"}, digits : {1}, lang : {en, de, simple, en_gb, ven}]
      \cup { [action |-> "wbsetlabel-add", sep |-> ":", digits |-> 2, lang |-> de],
             [action |-> "wbsetlabel-add", sep |-> "-", digits |-> 1, lang |-> de],
             [action |-> "wbsetlabel-set", sep |-> ":", digits |-> 1, lang |-> en] }

\* Live file pages of commonswiki in the snapshot: the filters all queries share.
Events == [page : Pages, ts : Times, comment : CommentForms]

StartsWith(x, p) == Len(x) >= Len(p) /\ SubSeq(x, 1, Len(p)) = p

Contains(x, p) == \E i \in 1..(Len(x) - Len(p) + 1) : SubSeq(x, i, i + Len(p) - 1) = p

\* REGEXP "^simple|en|(en-.+)$": three alternatives, each found anywhere it fits
EnglishRegexp(x) ==
    \/ StartsWith(x, simple)
    \/ Contains(x, en)
    \/ \E i \in 1..(Len(x) - 3) : SubSeq(x, i, i + 2) = <<"e", "n", "-">>

\* regexp_extract(event_comment, "^...wbsetlabel-add:\d.(\w+(-\w+)?)", 1):
\* the language code, or the empty string where the pattern does not match
regexp_extract(c) ==
    IF c.action = "wbsetlabel-add" /\ c.sep = ":" /\ c.digits = 1 THEN c.lang ELSE <<>>

QueryNames ==
    {"nonenglish_caption_count_query", "english_caption_count_query",
     "all_caption_count_query", "time_to_caption_query",
     "nonenglish_first_caption_query"}

\* event_timestamp >= "{start_date}" AND event_timestamp < "{end_date}"
DateClause(q, ts, s, e) ==
    /\ ts >= s
    /\ IF q = "time_to_caption_query" THEN ts <= e ELSE ts < e

\* event_comment REGEXP "^...wbsetlabel-add:"  or  "^...wbsetlabel-add"
CommentClause(q, c) ==
    IF q \in {"english_caption_count_query", "all_caption_count_query"}
    THEN c.action = "wbsetlabel-add"
    ELSE c.action = "wbsetlabel-add" /\ c.sep = ":"

\* regexp_extract(...) [NOT] REGEXP "^simple|en|(en-.+)$"
LanguageClause(q, c) ==
    IF q = "all_caption_count_query" THEN TRUE
    ELSE IF q = "english_caption_count_query" THEN EnglishRegexp(regexp_extract(c))
    ELSE ~EnglishRegexp(regexp_extract(c))

Selects(q, ev, s, e) ==
    DateClause(q, ev.ts, s, e) /\ CommentClause(q, ev.comment) /\ LanguageClause(q, ev.comment)

\* COUNT(DISTINCT page_id) counts these.
PagesOf(events) == { ev.page : ev \in events }

----------------------------------------------------------------------------
(* Quarterly counts: first caption per page, rows before a cutoff *)

Earliest(ts) == CHOOSE t \in ts : \A x \in ts : t <= x

\* SELECT page_id, MAX(event_timestamp) ... GROUP BY page_id
first_captions_max(events) ==
    { [page_id |-> p,
       first_caption_ts |->
           LET ts == { ev.ts : ev \in { x \in events : x.page = p } }
           IN  CHOOSE t \in ts : \A x \in ts : t >= x]
      : p \in PagesOf(events) }

\* SELECT page_id, MIN(event_timestamp) AS first_caption ... GROUP BY page_id,
\* with the column first_caption_ts that pd.to_datetime adds: the same instant
first_captions(events) ==
    { [page_id |-> p,
       first_caption_ts |-> Earliest({ ev.ts : ev \in { x \in events : x.page = p } })]
      : p \in PagesOf(events) }

\* The cutoffs a count can be taken at: the instants after the first.
Cutoffs == 1..(MaxTime + 1)

\* len(frame.loc[frame['first_caption_ts'] < cutoff])
through(frame, cutoff) == Cardinality({ r \in frame : r.first_caption_ts < cutoff })

----------------------------------------------------------------------------
(* title_template_query: templatelinks LEFT JOIN wbc_entity_usage *)

NULL == [null |-> TRUE, v |-> 0]

Value(n) == [null |-> FALSE, v |-> n]

M_entity == <<"M", "1">>
Q_entity == <<"Q", "1">>

LinkRows ==
    [tl_from : Pages, tl_from_namespace : {6, 14}, tl_namespace : {10},
     tl_title : {"Artwork", "Information"}]

UsageRows == [eu_page_id : Pages, eu_entity_id : {M_entity, Q_entity}, eu_aspect : {"T", "L"}]

NoUsage == [eu_page_id |-> 0, eu_entity_id |-> <<>>, eu_aspect |-> "", null |-> TRUE]

\* LEFT JOIN ... ON tl_from = eu_page_id: every link row with each usage row
\* of its page, or once with NULLs where its page has none.
LeftJoin(tl, eu) ==
    { [t |-> t, u |-> [eu_page_id |-> u.eu_page_id, eu_entity_id |-> u.eu_entity_id,
                       eu_aspect |-> u.eu_aspect, null |-> FALSE]]
      : <<t, u>> \in { p \in tl \X eu : p[1].tl_from = p[2].eu_page_id } }
      \cup { [t |-> t, u |-> NoUsage]
             : t \in { x \in tl : ~\E u \in eu : x.tl_from = u.eu_page_id } }

\* The WHERE clause; a comparison with NULL is not true.
TitleWhere(r) ==
    /\ r.t.tl_from_namespace = 6
    /\ r.t.tl_namespace = 10
    /\ r.t.tl_title = "Artwork"
    /\ ~r.u.null /\ StartsWith(r.u.eu_entity_id, <<"M">>)
    /\ ~r.u.null /\ r.u.eu_aspect = "T"

\* SELECT count(1), SUM(IF(eu_page_id IS NOT NULL, 1, 0)) AS num_with_title;
\* SUM over no rows is NULL.
title_template_query(tl, eu) ==
    LET rows == { r \in LeftJoin(tl, eu) : TitleWhere(r) }
    IN  [status |-> "ok",
         count  |-> Cardinality(rows),
         num_with_title |-> IF rows = {} THEN NULL
                            ELSE Value(Cardinality({ r \in rows : ~r.u.null }))]
----------------------------------------------------------------------------
(* State machine *)

NoTemplate == [name |-> "", text |-> <<>>]
NoBind     == [name |-> "", text |-> <<>>, params |-> <<>>]
NoBound    == [status |-> "none", text |-> <<>>, key |-> "", warnings |-> {}]
NoBeh      == [failAt |-> 0, kind |-> "none", msg |-> "", table |-> EmptyTable]
NoRun      == [backend |-> "", pre |-> <<>>, query |-> <<>>, beh |-> NoBeh]
NoArgs     == [a |-> 0, b |-> 0, u |-> 0]
NoSets     == [A |-> <<>>, B |-> <<>>]
NoOverlap  == [status |-> "none", value |-> 0]
NoFrames   == [A |-> EmptyTable, B |-> EmptyTable, U |-> EmptyTable]
NoSeries   == [status |-> "none", cells |-> <<>>]
NoData     == [events |-> {}, s |-> 0, e |-> 0]
NoSelected == [q \in QueryNames |-> {}]
NoQuarterly == [firsts |-> {}, through |-> [c \in Cutoffs |-> 0]]
NoDb       == [tl |-> {}, eu |-> {}]
NoTitles   == [status |-> "none", count |-> 0, num_with_title |-> NULL]
NoBefore   == [query |-> <<>>, result |-> NoResult]

RegisterIdle == regArg' = NoTemplate /\ regOut' = "none"
BindIdle     == bindArg' = NoBind /\ bound' = NoBound
RunIdle      ==
    /\ runArg' = NoRun /\ sent' = <<>> /\ calls' = 0 /\ result' = NoResult
    /\ shown' = NoResult

Init ==
    /\ catalog = {}
    /\ op = "init"
    /\ regArg = NoTemplate /\ regOut = "none"
    /\ bindArg = NoBind /\ bound = NoBound
    /\ runArg = NoRun /\ sent = <<>> /\ calls = 0 /\ result = NoResult
    /\ shown = NoResult
    /\ args = NoArgs /\ sets = NoSets /\ overlap = NoOverlap
    /\ frames = NoFrames /\ series = NoSeries
    /\ data = NoData /\ selected = NoSelected
    /\ quarterly = NoQuarterly /\ db = NoDb /\ titles = NoTitles
    /\ before = NoBefore /\ inflight = <<>>

Register ==
    \E t \in Candidates :
        LET r == register(catalog, t)
        IN  /\ catalog' = r.catalog
            /\ regArg' = t
            /\ regOut' = r.out
            /\ op' = "register"
            /\ BindIdle /\ RunIdle /\ UNCHANGED others

\* A bind that uses its template up.
Bind_Consuming ==
    \E c \in catalog, kw \in Mappings :
        /\ bindArg' = [name |-> c.name, text |-> c.text, params |-> kw]
        /\ bound' = format(c.text, kw)
        /\ op' = "bind"
        /\ catalog' = catalog \ {c}
        /\ RegisterIdle /\ RunIdle /\ UNCHANGED others

Bind ==
    \E c \in catalog, kw \in Mappings :
        /\ bindArg' = [name |-> c.name, text |-> c.text, params |-> kw]
        /\ bound' = format(c.text, kw)
        /\ op' = "bind"
        /\ UNCHANGED catalog
        /\ RegisterIdle /\ RunIdle /\ UNCHANGED others

\* The outcome of a cell that formats `text` with `kw` (or sends it as it is)
\* and hands it to `backend` after the statements `pre`.
Cell(backend, pre, text, formatted, kw, beh) ==
    LET f == IF formatted THEN format(text, kw) ELSE FormatOk(text)
    IN  IF f.status = "ok"
        THEN [arg |-> [backend |-> backend, pre |-> pre, query |-> f.text, beh |-> beh],
              out |-> RunCell(backend, pre, f.text, beh)]
        ELSE [arg |-> [backend |-> backend, pre |-> pre, query |-> <<>>, beh |-> beh],
              out |-> FormatFailed(f)]

Ran(c) ==
    /\ runArg' = c.arg
    /\ sent' = c.out.sent
    /\ calls' = c.out.calls
    /\ result' = c.out.result
    /\ shown' = NoResult
    /\ op' = "run"
    /\ UNCHANGED catalog
    /\ RegisterIdle /\ BindIdle /\ UNCHANGED others

\* hive.run([ "SET mapreduce.map.memory.mb=4096", q.format(snapshot = ..., ...) ])
HiveRunWithSet ==
    \E name \in {"claim_query", "nonenglish_caption_count_query"}, beh \in Behaviours :
        /\ Defined(catalog, name)
        /\ Ran(Cell("hive", <<SET_MEMORY>>, Lookup(catalog, name).text, TRUE,
                    HiveParams, beh))

\* label_counts = hive.run(caption_query)
HiveRunPlain ==
    \E beh \in Behaviours :
        /\ Defined(catalog, "caption_query")
        /\ Ran(Cell("hive", <<>>, Lookup(catalog, "caption_query").text, FALSE,
                    HiveParams, beh))

\* mariadb.run(template_count_query.format(template_title = ...), 'commonswiki')
MariadbRun ==
    \E title \in TemplateTitles, beh \in Behaviours :
        /\ Defined(catalog, "template_count_query")
        /\ Ran(Cell("mariadb", <<>>, Lookup(catalog, "template_count_query").text, TRUE,
                    MariadbParams(title), beh))

\* claim_counts.sort_values(['claim_action', 'claim_subaction']), in the cell
\* after the one that ran claim_query
SortValuesCell ==
    /\ op = "run"
    /\ result.status = "ok"
    /\ Defined(catalog, "claim_query")
    /\ runArg.pre = <<SET_MEMORY>>
    /\ runArg.query = format(Lookup(catalog, "claim_query").text, HiveParams).text
    /\ LET sv == sort_values(result)
       IN  result' = sv.frame /\ shown' = sv.shown
    /\ op' = "display"
    /\ UNCHANGED <<catalog, runArg, sent, calls>>
    /\ RegisterIdle /\ BindIdle /\ UNCHANGED others

Next ==
    Register \/ Bind \/ HiveRunWithSet \/ HiveRunPlain \/ MariadbRun \/ SortValuesCell

Spec == Init /\ [][Next]_vars

\* The overlap cell is a pure computation: the counts (or the rows they are
\* counted on) are there when it runs.
InitOverlap ==
    /\ catalog = {}
    /\ regArg = NoTemplate /\ regOut = "none"
    /\ bindArg = NoBind /\ bound = NoBound
    /\ runArg = NoRun /\ sent = <<>> /\ calls = 0 /\ result = NoResult
    /\ shown = NoResult
    /\ overlap = NoOverlap /\ series = NoSeries
    /\ data = NoData /\ selected = NoSelected
    /\ quarterly = NoQuarterly /\ db = NoDb /\ titles = NoTitles
    /\ before = NoBefore /\ inflight = <<>>
    /\ \/ /\ op = "counts"
          /\ args \in [a : Counts, b : Counts, u : Counts]
          /\ sets = NoSets /\ frames = NoFrames
       \/ /\ op = "rows"
          /\ args = NoArgs /\ frames = NoFrames
          /\ sets \in [A : RowSeqs, B : RowSeqs]
       \/ /\ op = "frames"
          /\ args = NoArgs /\ sets = NoSets
          /\ frames \in [A : CountFrames, B : CountFrames, U : CountFrames]

\* nonenglish + english - all, on three counts
PairwiseOverlap ==
    /\ op = "counts"
    /\ overlap' = pairwise_overlap(args.a, args.b, args.u)
    /\ op' = "overlap"
    /\ UNCHANGED <<catalog, regArg, regOut, bindArg, bound, runArg, sent, calls,
                   result, shown, args, sets, frames, series, data, selected, quarterly, db, titles,
                   before, inflight>>

\* The three counts measured on the rows of two queries and of their union.
MeasureOverlap ==
    /\ op = "rows"
    /\ LET a == count_distinct(sets.A)
           b == count_distinct(sets.B)
           u == count_distinct(sets.A \o sets.B)
       IN  /\ args' = [a |-> a, b |-> b, u |-> u]
           /\ overlap' = pairwise_overlap(a, b, u)
    /\ op' = "measure"
    /\ UNCHANGED <<catalog, regArg, regOut, bindArg, bound, runArg, sent, calls,
                   result, shown, sets, frames, series, data, selected, quarterly, db, titles,
                   before, inflight>>

\* The same cell on three result frames.
SeriesOverlap ==
    /\ op = "frames"
    /\ series' = overlap_series(frames.A, frames.B, frames.U)
    /\ op' = "series"
    /\ UNCHANGED <<catalog, regArg, regOut, bindArg, bound, runArg, sent, calls,
                   result, shown, args, sets, overlap, frames, data, selected, quarterly, db, titles,
                   before, inflight>>

NextOverlap == PairwiseOverlap \/ MeasureOverlap \/ SeriesOverlap

SpecOverlap == InitOverlap /\ [][NextOverlap]_vars

\* The caption queries on a data set: two history rows and a date range.
InitQuery ==
    /\ catalog = {}
    /\ regArg = NoTemplate /\ regOut = "none"
    /\ bindArg = NoBind /\ bound = NoBound
    /\ runArg = NoRun /\ sent = <<>> /\ calls = 0 /\ result = NoResult
    /\ shown = NoResult
    /\ args = NoArgs /\ sets = NoSets /\ overlap = NoOverlap
    /\ frames = NoFrames /\ series = NoSeries
    /\ selected = NoSelected /\ quarterly = NoQuarterly /\ titles = NoTitles
    /\ before = NoBefore /\ inflight = <<>>
    /\ \/ /\ op = "data"
          /\ db = NoDb
          /\ \E e1 \in Events, e2 \in Events, s \in Times, e \in Times :
                s <= e /\ data = [events |-> {e1, e2}, s |-> s, e |-> e]
       \/ /\ op = "tables"
          /\ data = NoData
          /\ \E t1 \in LinkRows, t2 \in LinkRows, u1 \in UsageRows, u2 \in UsageRows :
                db = [tl |-> {t1, t2}, eu |-> {u1, u2}]
       \/ /\ op = "tables"
          /\ data = NoData
          /\ \E t1 \in LinkRows, t2 \in LinkRows :
                db = [tl |-> {t1, t2}, eu |-> {}]

\* The caption queries evaluated on the data set, then the cells that add
\* first_caption_ts and count the rows before each cutoff.
EvaluateQueries ==
    /\ op = "data"
    /\ LET sel == [q \in QueryNames |->
                     { ev \in data.events : Selects(q, ev, data.s, data.e) }]
           fc  == first_captions(sel["nonenglish_first_caption_query"])
       IN  /\ selected' = sel
           /\ quarterly' = [firsts |-> fc, through |-> [c \in Cutoffs |-> through(fc, c)]]
    /\ op' = "query"
    /\ UNCHANGED <<catalog, regArg, regOut, bindArg, bound, runArg, sent, calls,
                   result, shown, args, sets, overlap, frames, series, data,
                   db, titles,
                   before, inflight>>

\* mariadb.run(title_template_query, 'commonswiki')
TitleTemplateCell ==
    /\ op = "tables"
    /\ titles' = title_template_query(db.tl, db.eu)
    /\ op' = "title"
    /\ UNCHANGED <<catalog, regArg, regOut, bindArg, bound, runArg, sent, calls,
                   result, shown, args, sets, overlap, frames, series, data,
                   selected, quarterly, db,
                   before, inflight>>

NextQuery == EvaluateQueries \/ TitleTemplateCell

SpecQuery == InitQuery /\ [][NextQuery]_vars

\* The notebook with its template cells executed and no query cell yet.
InitCells ==
    /\ catalog = SourceTemplates
    /\ op = "idle"
    /\ regArg = NoTemplate /\ regOut = "none"
    /\ bindArg = NoBind /\ bound = NoBound
    /\ runArg = NoRun /\ sent = <<>> /\ calls = 0 /\ result = NoResult
    /\ shown = NoResult
    /\ args = NoArgs /\ sets = NoSets /\ overlap = NoOverlap
    /\ frames = NoFrames /\ series = NoSeries
    /\ data = NoData /\ selected = NoSelected
    /\ quarterly = NoQuarterly /\ db = NoDb /\ titles = NoTitles
    /\ before = NoBefore /\ inflight = <<>>

\* A query cell executed for the first time.
FirstRun ==
    /\ op = "idle"
    /\ (HiveRunWithSet \/ HiveRunPlain \/ MariadbRun)

\* The same cell executed again: the same bound text goes to the same backend,
\* which may answer differently this time.
RunAgain ==
    /\ op = "run"
    /\ runArg.query # <<>>
    /\ \E beh \in Behaviours :
          LET out == RunCell(runArg.backend, runArg.pre, runArg.query, beh)
          IN  /\ runArg' = [runArg EXCEPT !.beh = beh]
              /\ sent' = out.sent
              /\ calls' = out.calls
              /\ result' = out.result
    /\ before' = [query |-> runArg.query, result |-> result]
    /\ op' = "rerun"
    /\ UNCHANGED <<catalog, regArg, regOut, bindArg, bound, shown, args, sets,
                   overlap, frames, series, data, selected, quarterly, db, titles,
                   inflight>>

NextRerun == FirstRun \/ RunAgain

SpecRerun == InitCells /\ [][NextRerun]_vars

\* The query cells of the notebooks: backend, statements sent first, template
\* text, whether it is formatted, and with which keyword arguments.
NotebookCells ==
    { [backend |-> "hive", pre |-> <<SET_MEMORY>>, text |-> claim_query,
       formatted |-> TRUE, kw |-> HiveParams],
      [backend |-> "hive", pre |-> <<SET_MEMORY>>, text |-> nonenglish_caption_count_query,
       formatted |-> TRUE, kw |-> HiveParams],
      [backend |-> "hive", pre |-> <<>>, text |-> caption_query,
       formatted |-> FALSE, kw |-> HiveParams] }
      \cup { [backend |-> "mariadb", pre |-> <<>>, text |-> template_count_query,
              formatted |-> TRUE, kw |-> MariadbParams(t)] : t \in TemplateTitles }

\* A call that returns at once, leaving its statements to be answered later.
KernelFree_Async == TRUE

\* The kernel executes one cell at a time and hive.run / mariadb.run return
\* only with the result: a cell starts when no call is waiting.
KernelFree == op # "waiting"

\* A cell starts: the text is formatted and the first statement is handed to
\* the backend.
StartCell ==
    /\ KernelFree
    /\ \E cell \in NotebookCells, beh \in Behaviours :
          LET c == Cell(cell.backend, cell.pre, cell.text, cell.formatted, cell.kw, beh)
              first == [backend |-> cell.backend,
                        stmt |-> (c.arg.pre \o <<c.arg.query>>)[1]]
          IN  /\ runArg' = c.arg
              /\ IF c.arg.query = <<>>
                 THEN /\ sent' = <<>> /\ calls' = 0 /\ result' = c.out.result
                      /\ inflight' = inflight /\ op' = "done"
                 ELSE /\ sent' = <<first>> /\ calls' = 1 /\ result' = NoResult
                      /\ inflight' = Append(inflight, first) /\ op' = "waiting"
    /\ shown' = NoResult
    /\ UNCHANGED <<catalog, regArg, regOut, bindArg, bound, args, sets,
                   overlap, frames, series, data, selected, quarterly, db, titles,
                   before>>

\* The backend answers the statement it holds: a failure or the last answer
\* ends the call, otherwise the next statement is handed over.
Answer ==
    /\ op = "waiting"
    /\ inflight # <<>>
    /\ LET stmts == runArg.pre \o <<runArg.query>>
           i == Len(sent)
       IN  IF runArg.beh.failAt = i \/ i >= Len(stmts)
           THEN /\ result' = Invoke(runArg.backend, stmts, runArg.beh).outcome
                /\ inflight' = Tail(inflight)
                /\ sent' = sent
                /\ op' = "done"
           ELSE /\ result' = result
                /\ inflight' = Append(Tail(inflight),
                                       [backend |-> runArg.backend, stmt |-> stmts[i + 1]])
                /\ sent' = Append(sent, [backend |-> runArg.backend, stmt |-> stmts[i + 1]])
                /\ op' = "waiting"
    /\ UNCHANGED <<catalog, regArg, regOut, bindArg, bound, runArg, calls, shown,
                   args, sets, overlap, frames, series, data, selected, quarterly,
                   db, titles, before>>

NextSeq == StartCell \/ Answer

SpecSeq == InitCells /\ [][NextSeq]_vars
----------------------------------------------------------------------------
(* Properties *)

\* The field names of a template text: every token that stands between braces.
Placeholders(text) ==
    { text[j] : j \in { i \in 2..(Len(text) - 1) : text[i - 1] = "{" /\ text[i + 1] = "}" } }

SentStatements == [i \in 1..Len(sent) |-> sent[i].stmt]

RunStatements == runArg.pre \o <<runArg.query>>

\* C1: binding a registered template succeeds when the mapping has a value for
\* every placeholder of its text, and fails with the missing-parameter error
\* (Python's KeyError), producing no bound text, when a placeholder has none.
C1_BindCoversPlaceholders ==
    op = "bind" =>
        LET need == Placeholders(bindArg.text)
            have == DOMAIN bindArg.params
        IN  /\ need \subseteq have => bound.status = "ok"
            /\ ~(need \subseteq have) => bound.status = "KeyError" /\ bound.text = <<>>

C1_Witness ==
    /\ op = "bind"
    /\ bound.status = "KeyError"
    /\ DOMAIN bindArg.params # {}
    /\ Placeholders(bindArg.text) \cap DOMAIN bindArg.params # {}

\* C2 (as claimed): whenever count_a + count_b < count_union the overlap
\* raises InvalidOverlapError, and no returned value is negative.
C2_RaisesOnNegative ==
    op \in {"overlap", "measure"} =>
        /\ args.a + args.b < args.u => overlap.status = "InvalidOverlapError"
        /\ overlap.status = "value" => overlap.value >= 0

\* C3: for count_a + count_b >= count_union the overlap returns exactly
\* count_a + count_b - count_union.
C3_OverlapValue ==
    (op = "overlap" /\ args.a + args.b >= args.u) =>
        overlap.status = "value" /\ overlap.value = args.a + args.b - args.u

C3_Witness ==
    op = "overlap" /\ args.a > 0 /\ args.b > 0 /\ args.u > args.a /\ args.u > args.b
        /\ args.a + args.b > args.u /\ overlap.value > 0

\* C4: on the counts of two page sets and of their union the overlap is the
\* size of the intersection of the two sets, and no error is raised.
C4_RecoversIntersection ==
    op = "measure" =>
        /\ overlap.status = "value"
        /\ overlap.value = Cardinality(PageSet(sets.A) \cap PageSet(sets.B))

C4_Witness ==
    /\ op = "measure"
    /\ PageSet(sets.A) \cap PageSet(sets.B) # {}
    /\ PageSet(sets.A) \ PageSet(sets.B) # {}
    /\ PageSet(sets.B) \ PageSet(sets.A) # {}
    /\ overlap.value = 1

\* C5: the overlap is the same with its first two arguments exchanged.
C5_Commutative ==
    op = "overlap" => overlap = pairwise_overlap(args.b, args.a, args.u)

C5_Witness ==
    op = "overlap" /\ args.a # args.b /\ args.a # args.u /\ args.b # args.u
        /\ overlap.status = "value"

\* C6: with the recorded counts 731900, 776401 and 1365092 the overlap is the
\* value 143209, and no error.
C6_RecordedOverlap ==
    (op = "overlap" /\ args = [a |-> 731900, b |-> 776401, u |-> 1365092]) =>
        overlap = [status |-> "value", value |-> 143209]

C6_Witness ==
    /\ op = "overlap"
    /\ args.a = nonenglish_caption_filecount
    /\ args.b = english_caption_filecount
    /\ args.u = all_caption_filecount
    /\ overlap.value = 143209

\* C7: the statements reach the backend pre-statements first, in the order
\* given, the main query last; the result the cell gets is the one that
\* answers the main query, never a pre-statement.
C7_PreStatementsFirst ==
    (op = "run" /\ calls > 0) =>
        /\ Len(sent) <= Len(RunStatements)
        /\ \A i \in 1..Len(sent) : sent[i].stmt = RunStatements[i]
        /\ result.status = "ok" =>
              /\ SentStatements = RunStatements
              /\ result.answers = runArg.query
              /\ \A i \in 1..Len(runArg.pre) : result.answers # runArg.pre[i]

C7_Witness ==
    /\ op = "run"
    /\ runArg.pre = <<SET_MEMORY>>
    /\ result.status = "ok"
    /\ Len(sent) = 2
    /\ sent[1].stmt = SET_MEMORY
    /\ sent[2].stmt = runArg.query

\* C8: a failing backend is invoked once and its failure is what the cell is
\* left with: no statement is sent again.
C8_NoRetry ==
    op = "run" =>
        /\ calls <= 1
        /\ (calls > 0 /\ Fails(RunStatements, runArg.beh)) =>
              /\ result.status = "error"
              /\ calls = 1
              /\ Len(sent) = runArg.beh.failAt

C8_Witness ==
    /\ op = "run"
    /\ result.status = "error"
    /\ result.kind = "unreachable"
    /\ calls = 1
    /\ Len(sent) = 1

\* C9: an unreachable backend and a rejected query are told apart in the
\* error the cell is left with, and the error carries the backend's own
\* message unchanged.
C9_NativeErrorKept ==
    (op = "run" /\ calls > 0) =>
        IF Fails(RunStatements, runArg.beh)
        THEN /\ result.status = "error"
             /\ result.kind = runArg.beh.kind
             /\ result.msg = runArg.beh.msg
        ELSE result.status = "ok"

C9_Witness ==
    /\ op = "run"
    /\ result.status = "error"
    /\ result.kind = "rejected"
    /\ runArg.beh.kind = "rejected"
    /\ result.msg = "FAILED: ParseException line 1:0"

\* C10: register fails with DuplicateTemplateError exactly when the catalog
\* holds a template of that name, and adds the template otherwise; the
\* catalog never holds two templates of one name.
C10_RegisterUnique ==
    /\ [](\A c1 \in catalog, c2 \in catalog : c1.name = c2.name => c1 = c2)
    /\ [][op' = "register" =>
            IF Defined(catalog, regArg'.name)
            THEN regOut' = "DuplicateTemplateError" /\ catalog' = catalog
            ELSE regOut' = "ok" /\ catalog' = catalog \cup {regArg'}]_vars

C10_Witness ==
    /\ op = "register"
    /\ regOut = "DuplicateTemplateError"
    /\ regArg \notin catalog
    /\ Defined(catalog, regArg.name)
\* The mapping without the parameters the text has no field for.
Referenced(text, kw) ==
    [n \in DOMAIN kw \cap Placeholders(text) |-> kw[n]]

\* C11: the missing-parameter error names a placeholder of the text that has
\* no supplied value; with end_date the only one missing, it names end_date.
C11_ErrorNamesMissing ==
    (op = "bind" /\ bound.status = "KeyError") =>
        LET missing == Placeholders(bindArg.text) \ DOMAIN bindArg.params
        IN  /\ bound.key \in missing
            /\ missing = {"end_date"} => bound.key = "end_date"

C11_Witness ==
    /\ op = "bind"
    /\ bound.status = "KeyError"
    /\ {"start_date", "end_date"} \subseteq Placeholders(bindArg.text)
    /\ "start_date" \in DOMAIN bindArg.params
    /\ Placeholders(bindArg.text) \ DOMAIN bindArg.params = {"end_date"}
    /\ bound.key = "end_date"

C13_ResultAsReturned ==
    (op \in {"run", "display"} /\ calls > 0 /\ ~Fails(RunStatements, runArg.beh)) =>
        /\ result.columns = runArg.beh.table.columns
        /\ result.rows = runArg.beh.table.rows

C13_Witness ==
    /\ op = "display"
    /\ Len(result.rows) = 3
    /\ shown.rows # result.rows
    /\ result.rows = claim_counts.rows

\* C14 (as claimed): template_count_query bound with the title Information and
\* run against the recorded reference run returns one row with one column,
\* named num_files, of value 51836906.
C14_InformationCount ==
    (op = "run"
        /\ runArg.backend = "mariadb"
        /\ runArg.query = format(template_count_query, MariadbParams(<<"Information">>)).text
        /\ runArg.beh.table = template_count_Information
        /\ result.status = "ok") =>
        /\ result.columns = <<"num_files">>
        /\ Len(result.rows) = 1
        /\ result.rows[1] = <<51836906>>
HasToken(text, tok) == \E i \in 1..Len(text) : text[i] = tok

\* The backend that holds the table a query reads.
Designated(query) ==
    IF HasToken(query, " FROM wmf.mediawiki_history") THEN "hive"
    ELSE IF HasToken(query, " FROM templatelinks") THEN "mariadb"
    ELSE "none"

\* C17: every statement of a run goes to the backend that holds the table the
\* query reads: a templatelinks query never reaches Hive, a mediawiki_history
\* query never reaches MariaDB.
C17_DesignatedBackend ==
    (op = "run" /\ calls > 0) =>
        /\ Designated(runArg.query) \in {"hive", "mariadb"}
        /\ runArg.backend = Designated(runArg.query)
        /\ \A i \in 1..Len(sent) : sent[i].backend = Designated(runArg.query)

C17_Witness ==
    /\ op = "run"
    /\ Designated(runArg.query) = "mariadb"
    /\ Len(sent) = 1
    /\ sent[1].backend = "mariadb"
    /\ result.status = "ok"

\* The queries the notebook cells hand to Hive, as the notebooks define them.
NotebookHiveQueries ==
    {caption_query, format(claim_query, HiveParams).text,
     format(nonenglish_caption_count_query, HiveParams).text}

\* The token that follows the token `intro` in a query, if any.
ValuesAfter(query, intro) ==
    { query[i + 1] : i \in { j \in 1..(Len(query) - 1) : query[j] = intro } }

\* C20 (as claimed): every query the notebooks send to Hive has the configured
\* snapshot, start date and end date as its snapshot and date-range bounds.
C20_ConfiguredRange ==
    (op = "run" /\ calls > 0 /\ runArg.backend = "hive"
        /\ runArg.query \in NotebookHiveQueries) =>
        /\ ValuesAfter(runArg.query, " WHERE snapshot = ") = {wmf_snapshot[1]}
        /\ ValuesAfter(runArg.query, " AND event_timestamp >= ") = {start_date[1]}
        /\ ValuesAfter(runArg.query, " AND event_timestamp < ") = {end_date[1]}
ZeroRows(frame) == frame.rows = <<>>

\* C15 (as claimed): a result of zero rows is a successful outcome of run, not
\* an error; and taking the count of a zero-row result into the subtraction
\* fails with NoResultRowError instead of giving a null or a number.
C15_ZeroRowsFail ==
    /\ \A beh \in Behaviours :
          (beh.failAt = 0 /\ ZeroRows(beh.table)) =>
              RunCell("hive", <<>>, caption_query, beh).result.status = "ok"
    /\ (op = "series"
          /\ (ZeroRows(frames.A) \/ ZeroRows(frames.B) \/ ZeroRows(frames.U))) =>
          series.status = "NoResultRowError"

\* C18 (as claimed): the pages the 'all' query counts are exactly the pages the
\* English query or the non-English query counts.
C18_AllIsUnion ==
    op = "query" =>
        PagesOf(selected["all_caption_count_query"])
          = PagesOf(selected["english_caption_count_query"])
              \cup PagesOf(selected["nonenglish_caption_count_query"])

\* C19 (as claimed): every query with a date range selects only events with
\* start_date <= event_timestamp < end_date; none selects an event stamped
\* exactly end_date.
C19_EndExclusive ==
    op = "query" =>
        \A q \in QueryNames : \A ev \in selected[q] :
            data.s <= ev.ts /\ ev.ts < data.e

\* What token i of a template text contributes to the bound text: a field
\* gives the value of its name, any other token gives itself.
Contribution(text, kw, i) ==
    IF text[i] = "{" THEN kw[text[i + 1]]
    ELSE IF text[i] = "}" \/ (i > 1 /\ text[i - 1] = "{") THEN <<>>
    ELSE <<text[i]>>

RECURSIVE Replaced(_, _, _)
Replaced(text, kw, i) ==
    IF i > Len(text) THEN <<>>
    ELSE Contribution(text, kw, i) \o Replaced(text, kw, i + 1)

\* C21: the bound text is the template text with every field replaced by the
\* value of its parameter and every other token unchanged; a value that has
\* the form of a field is inserted as it is and not expanded, so the only
\* fields left in the bound text are those written inside inserted values.
C21_SinglePass ==
    (op = "bind" /\ bound.status = "ok") =>
        /\ bound.text = Replaced(bindArg.text, bindArg.params, 1)
        /\ Placeholders(bound.text)
             \subseteq UNION { Placeholders(bindArg.params[n])
                               : n \in Placeholders(bindArg.text) }
        /\ \A n \in Placeholders(bindArg.text) :
              bindArg.params[n] = BracedValue =>
                  \E i \in 1..(Len(bound.text) - 2) :
                      SubSeq(bound.text, i, i + 2) = BracedValue

C21_Witness ==
    /\ op = "bind"
    /\ bound.status = "ok"
    /\ bindArg.name = "template_count_query"
    /\ "limit" \in DOMAIN bindArg.params
    /\ bindArg.params["template_title"] = BracedValue
    /\ Placeholders(bound.text) = {"limit"}

\* The codes the classifier is meant to accept: simple, en, en-<variant>.
IsEnglishCode(x) ==
    \/ x = simple
    \/ x = en
    \/ Len(x) > 3 /\ SubSeq(x, 1, 3) = <<"e", "n", "-">>

\* A caption-add event the language of which the queries can read.
CaptionAdd(ev) ==
    /\ ev.comment.action = "wbsetlabel-add"
    /\ ev.comment.sep = ":"
    /\ ev.comment.digits = 1

\* C22 (as claimed): a caption-add event in the date range is counted as
\* English exactly when its language code is simple, en or en-<variant>, and
\* as non-English exactly when it is not; no other code counts as English.
C22_EnglishExact ==
    op = "query" =>
        \A ev \in data.events :
            (CaptionAdd(ev) /\ data.s <= ev.ts /\ ev.ts < data.e) =>
                /\ ev \in selected["english_caption_count_query"]
                      <=> IsEnglishCode(ev.comment.lang)
                /\ ev \in selected["nonenglish_caption_count_query"]
                      <=> ~IsEnglishCode(ev.comment.lang)
                /\ ev \in selected["nonenglish_first_caption_query"]
                      <=> ~IsEnglishCode(ev.comment.lang)

\* The pages that have a selected event before the cutoff.
PagesBefore(events, cutoff) == PagesOf({ ev \in events : ev.ts < cutoff })

\* C23: the count through a cutoff is the number of distinct pages with at
\* least one event selected by nonenglish_first_caption_query before the
\* cutoff; the frame has one row per page; the counts do not decrease with the
\* cutoff and none exceeds the number of pages in the frame.
C23_QuarterlyCounts ==
    op = "query" =>
        LET events == selected["nonenglish_first_caption_query"]
        IN  /\ \A c \in Cutoffs :
                  quarterly.through[c] = Cardinality(PagesBefore(events, c))
            /\ \A r1 \in quarterly.firsts, r2 \in quarterly.firsts :
                  r1.page_id = r2.page_id => r1 = r2
            /\ Cardinality(quarterly.firsts) = Cardinality(PagesOf(events))
            /\ \A c1 \in Cutoffs, c2 \in Cutoffs :
                  c1 <= c2 => quarterly.through[c1] <= quarterly.through[c2]
            /\ \A c \in Cutoffs :
                  quarterly.through[c] <= Cardinality(quarterly.firsts)

C23_Witness ==
    /\ op = "query"
    /\ Cardinality(selected["nonenglish_first_caption_query"]) = 2
    /\ Cardinality(quarterly.firsts) = 1
    /\ quarterly.through[1] = 1
    /\ quarterly.through[2] = 1

\* The file pages that link to the Artwork template.
ArtworkFiles(tl) ==
    { t \in tl : t.tl_from_namespace = 6 /\ t.tl_namespace = 10 /\ t.tl_title = "Artwork" }

TitleUsage(eu, page) ==
    { u \in eu : u.eu_page_id = page /\ StartsWith(u.eu_entity_id, <<"M">>)
                   /\ u.eu_aspect = "T" }

\* C24 (as claimed): the first column counts every file-namespace link to the
\* Artwork template, with or without a title-usage row for the page, and
\* num_with_title counts only those that have one.
C24_CountsEveryLink ==
    op = "title" =>
        /\ titles.count = Cardinality(ArtworkFiles(db.tl))
        /\ ~titles.num_with_title.null =>
              titles.num_with_title.v
                = Cardinality({ t \in ArtworkFiles(db.tl) : TitleUsage(db.eu, t.tl_from) # {} })

\* C25: bind, run and display leave the catalog as it is, whether they succeed
\* or fail: the template a bind used is still there with the same name and
\* text (and so the same fields), and the bound text is a function of that
\* text and the parameters alone.
C25_CatalogReadOnly ==
    /\ [][op' \in {"bind", "run", "display"} => catalog' = catalog]_vars
    /\ [](op = "bind" =>
            /\ [name |-> bindArg.name, text |-> bindArg.text] \in catalog
            /\ bound = format(bindArg.text, bindArg.params))

C25_Witness ==
    /\ op = "bind"
    /\ bound.status = "KeyError"
    /\ [name |-> bindArg.name, text |-> bindArg.text] \in catalog
    /\ Cardinality(catalog) >= 2

QueryPositions == { i \in 1..Len(sent) : sent[i].stmt = runArg.query }

\* C26: every run of a bound query calls the backend once, also when the same
\* bound query was run just before; when nothing fails, the main query is
\* handed over exactly once and the result is the one the backend gave this
\* time; a failure is the one the backend raised this time.
C26_NoCache ==
    (op \in {"run", "rerun"} /\ runArg.query # <<>>) =>
        /\ calls = 1
        /\ Cardinality(QueryPositions) <= 1
        /\ IF Fails(RunStatements, runArg.beh)
           THEN /\ result.status = "error"
                /\ result.kind = runArg.beh.kind
                /\ result.msg = runArg.beh.msg
           ELSE /\ QueryPositions = {Len(sent)}
                /\ result.status = "ok"
                /\ result.columns = runArg.beh.table.columns
                /\ result.rows = runArg.beh.table.rows

C26_Witness ==
    /\ op = "rerun"
    /\ before.query = runArg.query
    /\ before.result.status = "ok"
    /\ result.status = "ok"
    /\ result.rows # before.result.rows
    /\ calls = 1

\* In the stepwise run the statements handed over and the result at the end
\* are those of the call taken as a whole.
StepwiseAgrees ==
    (op = "done" /\ runArg.query # <<>>) =>
        LET whole == RunCell(runArg.backend, runArg.pre, runArg.query, runArg.beh)
        IN  sent = whole.sent /\ result = whole.result

\* C27: at most one statement is outstanding at a backend at any moment; a
\* cell is formatted and its first statement sent only when no call is waiting
\* and nothing is outstanding, and a finished call has its result or error.
C27_Sequential ==
    /\ [](Len(inflight) <= 1)
    /\ [](op = "done" => inflight = <<>> /\ result.status \in {"ok", "error"})
    /\ [][(op' = "waiting" /\ (op # "waiting" \/ runArg' # runArg)) =>
            (inflight = <<>> /\ op \in {"idle", "done"})]_vars

C27_Witness ==
    /\ op = "waiting"
    /\ Len(sent) = 2
    /\ Len(inflight) = 1
    /\ inflight[1].stmt = runArg.query
    /\ sent[1].stmt = SET_MEMORY

\* C28: when a statement sent before the main query fails, the cell ends with
\* that error at once: nothing after the failing statement is handed to the
\* backend, the main query included, and no result frame comes back.
C28_PreStatementFailFast ==
    (op = "run" /\ calls > 0 /\ runArg.beh.failAt \in 1..Len(runArg.pre)) =>
        /\ result.status = "error"
        /\ result.kind = runArg.beh.kind
        /\ result.msg = runArg.beh.msg
        /\ Len(sent) = runArg.beh.failAt
        /\ \A i \in 1..Len(sent) : sent[i].stmt # runArg.query
        /\ result.columns = <<>> /\ result.rows = <<>>

C28_Witness ==
    /\ op = "run"
    /\ runArg.pre = <<SET_MEMORY>>
    /\ runArg.beh.failAt = 1
    /\ runArg.query # <<>>
    /\ sent = <<[backend |-> "hive", stmt |-> SET_MEMORY]>>
    /\ result.status = "error"

Smaller(a, b) == IF a <= b THEN a ELSE b

\* C29 (as claimed): every value the overlap returns is a possible intersection
\* size, at least 0 and at most the smaller of count_a and count_b; where
\* count_a + count_b - count_union exceeds that, no number is returned.
C29_WithinBounds ==
    op \in {"overlap", "measure"} =>
        /\ overlap.status = "value" =>
              0 <= overlap.value /\ overlap.value <= Smaller(args.a, args.b)
        /\ args.a + args.b - args.u > Smaller(args.a, args.b) =>
              overlap.status # "value"

====
